---- MODULE Spec2Model ----
(***************************************************************************)
(* Model of src/utils/data_processing.py: the four table transformations   *)
(* feature_engineering, data_preprocessing, remove_extreme_values and      *)
(* split_data, applied by a caller (notebook or script) to the table it    *)
(* holds.                                                                  *)
(*                                                                         *)
(* A float64 value is a pair <<n, d>>: a finite rational n/d in lowest     *)
(* terms with d > 0, NaN (the missing value) as <<0, 0>>, and the two      *)
(* infinities as <<1, 0>> and <<-1, 0>>.  Arithmetic follows IEEE-754 for  *)
(* NaN, the infinities and division by zero; finite results are exact      *)
(* (no rounding is modelled).                                              *)
(***************************************************************************)
EXTENDS Integers, Sequences, FiniteSets, TLC

VARIABLES df, src, pre, ret, call

vars == <<df, src, pre, ret, call>>

----------------------------------------------------------------------------
(* float64 values *)

NaN == <<0, 0>>
PosInf == <<1, 0>>
NegInf == <<-1, 0>>
Num(i) == <<i, 1>>

Abs(i) == IF i < 0 THEN -i ELSE i
Sg(i) == IF i < 0 THEN -1 ELSE 1

RECURSIVE GCD(_, _)
GCD(a, b) == IF b = 0 THEN a ELSE GCD(b, a % b)

\* n/d in the representation above (d may be 0 or negative).
Norm(n, d) ==
    IF d = 0 THEN (IF n = 0 THEN NaN ELSE <<Sg(n), 0>>)
    ELSE LET g == GCD(Abs(n), Abs(d))
         IN <<(Sg(d) * n) \div g, Abs(d) \div g>>

IsNaN(a) == a = NaN
IsInf(a) == a[2] = 0 /\ a[1] # 0
IsFinite(a) == a[2] > 0

Neg(a) == <<-a[1], a[2]>>

Add(a, b) ==
    IF IsNaN(a) \/ IsNaN(b) THEN NaN
    ELSE IF IsInf(a) /\ IsInf(b) THEN (IF a = b THEN a ELSE NaN)
    ELSE Norm(a[1] * b[2] + b[1] * a[2], a[2] * b[2])

Sub(a, b) == Add(a, Neg(b))

Mul(a, b) ==
    IF IsNaN(a) \/ IsNaN(b) THEN NaN
    ELSE Norm(a[1] * b[1], a[2] * b[2])

\* True division of float64: x/0 is +-inf for x # 0 and NaN for x = 0.
Div(a, b) ==
    IF IsNaN(a) \/ IsNaN(b) THEN NaN
    ELSE Norm(a[1] * b[2] * Sg(b[1]), a[2] * Abs(b[1]))

\* a < b and a <= b on floats (False when either side is NaN).
Less(a, b) ==
    /\ ~IsNaN(a) /\ ~IsNaN(b) /\ a # b
    /\ IF IsInf(a) THEN a = NegInf
       ELSE IF IsInf(b) THEN b = PosInf
       ELSE a[1] * b[2] < b[1] * a[2]

LessEq(a, b) == ~IsNaN(a) /\ ~IsNaN(b) /\ (a = b \/ Less(a, b))

\* == on floats: NaN equals nothing, itself included.
FloatEq(a, b) == ~IsNaN(a) /\ ~IsNaN(b) /\ a = b

----------------------------------------------------------------------------
(* DataFrames.  A table has a set of column labels, the subset of them    *)
(* whose dtype is int64 (every other column is float64), and its rows in  *)
(* order; a row carries its index label and one value per column.         *)

NoTable == [cols |-> {}, ints |-> {}, rows |-> <<>>]

NRows(t) == Len(t.rows)

\* The rows of t selected by the boolean mask keep (t[mask]): order and
\* index labels are kept.
RECURSIVE SelectRows(_, _)
SelectRows(rows, keep) ==
    IF rows = <<>> THEN <<>>
    ELSE LET rest == SelectRows(Tail(rows), Tail(keep))
         IN IF Head(keep) THEN <<Head(rows)>> \o rest ELSE rest

Mask(t, P(_)) == [i \in 1..NRows(t) |-> P(t.rows[i])]

Filter(t, P(_)) == [t EXCEPT !.rows = SelectRows(t.rows, Mask(t, P))]

\* t[c] = vals: column c is added or replaced, as float64.
SetCol(t, c, vals) ==
    [cols |-> t.cols \cup {c},
     ints |-> t.ints \ {c},
     rows |-> [i \in 1..NRows(t) |->
                 [idx |-> t.rows[i].idx,
                  v   |-> [x \in t.cols \cup {c} |->
                             IF x = c THEN vals[i] ELSE t.rows[i].v[x]]]]]

\* Series.fillna(value) on column c.
FillNaCol(t, c, value) ==
    [i \in 1..NRows(t) |->
        IF IsNaN(t.rows[i].v[c]) THEN value ELSE t.rows[i].v[c]]

\* A fillna that reaches the two ratio columns only.
FillNaRatios(t, value) ==
    [t EXCEPT !.rows =
        [i \in 1..NRows(t) |->
            [idx |-> t.rows[i].idx,
             v   |-> [x \in t.cols |->
                        IF /\ IsNaN(t.rows[i].v[x])
                           /\ x \in {"liquidity_imbalance", "matched_imbalance"}
                        THEN value
                        ELSE t.rows[i].v[x]]]]]

\* DataFrame.fillna(value): every NaN of every column.
FillNaTable(t, value) ==
    [t EXCEPT !.rows =
        [i \in 1..NRows(t) |->
            [idx |-> t.rows[i].idx,
             v   |-> [x \in t.cols |->
                        IF IsNaN(t.rows[i].v[x]) THEN value
                        ELSE t.rows[i].v[x]]]]]

----------------------------------------------------------------------------
(* Objects.  During a call two table objects exist: "arg", the object the *)
(* caller passed, and "new", the object most recently created by the      *)
(* callee.  A local variable of the callee is a reference to one of them. *)

Heap(X) == [arg |-> X, new |-> NoTable]

\* A copy that is no copy: the same object under another name.
DataFrameAlias(h, r) == [heap |-> h, ref |-> r]

\* DataFrame.copy(): a new object with the same contents.
DataFrameCopy(h, r) == [heap |-> [h EXCEPT !.new = h[r]], ref |-> "new"]

\* obj[c] = vals and obj.fillna(value, inplace=True): the object r refers
\* to is changed in place.
SetItem(h, r, c, vals) == [h EXCEPT ![r] = SetCol(h[r], c, vals)]
FillNaInPlace(h, r, value) == [h EXCEPT ![r] = FillNaTable(h[r], value)]

\* How a call ends: it returns the object r refers to, or raises.  arg is
\* the caller's object as the call leaves it.
Returned(h, r) == [err |-> FALSE, arg |-> h.arg, out |-> h[r], out2 |-> NoTable]
Raised(h) == [err |-> TRUE, arg |-> h.arg, out |-> NoTable, out2 |-> NoTable]

----------------------------------------------------------------------------
(* feature_engineering *)

\* The ratio with its numerator the wrong way round.
RatioEvalSwapped(t, a, b) ==
    [i \in 1..NRows(t) |->
        Div(Sub(t.rows[i].v[b], t.rows[i].v[a]),
            Add(t.rows[i].v[a], t.rows[i].v[b]))]

\* DataFrame.eval("(a-b)/(a+b)"), row by row.
RatioEval(t, a, b) ==
    [i \in 1..NRows(t) |->
        Div(Sub(t.rows[i].v[a], t.rows[i].v[b]),
            Add(t.rows[i].v[a], t.rows[i].v[b]))]

ColSub(t, a, b) ==
    [i \in 1..NRows(t) |-> Sub(t.rows[i].v[a], t.rows[i].v[b])]

ColMul(t, a, b) ==
    [i \in 1..NRows(t) |-> Mul(t.rows[i].v[a], t.rows[i].v[b])]

feature_engineering(X) ==
    LET c0 == DataFrameCopy(Heap(X), "arg")
        x  == c0.ref
        h0 == c0.heap
    IN  IF ~({"bid_size", "ask_size"} \subseteq h0[x].cols) THEN Raised(h0)
        ELSE
        LET h1 == SetItem(h0, x, "liquidity_imbalance",
                          RatioEval(h0[x], "bid_size", "ask_size"))
        IN  IF ~({"imbalance_size", "matched_size"} \subseteq h1[x].cols)
            THEN Raised(h1)
            ELSE
            LET h2 == SetItem(h1, x, "matched_imbalance",
                              RatioEval(h1[x], "imbalance_size", "matched_size"))
            IN  IF ~({"ask_price", "bid_price"} \subseteq h2[x].cols)
                THEN Raised(h2)
                ELSE
                LET h3 == SetItem(h2, x, "price_spread",
                                  ColSub(h2[x], "ask_price", "bid_price"))
                    h4 == SetItem(h3, x, "market_urgency",
                                  ColMul(h3[x], "price_spread", "liquidity_imbalance"))
                    h5 == FillNaInPlace(h4, x, Num(0))
                IN  Returned(h5, x)

----------------------------------------------------------------------------
(* data_preprocessing *)

Column(t, c) == [i \in 1..NRows(t) |-> t.rows[i].v[c]]

NonMissing(vals) == SelectSeq(vals, LAMBDA v : ~IsNaN(v))

RECURSIVE Insert(_, _)
Insert(v, s) ==
    IF s = <<>> THEN <<v>>
    ELSE IF LessEq(v, Head(s)) THEN <<v>> \o s
    ELSE <<Head(s)>> \o Insert(v, Tail(s))

RECURSIVE Sorted(_)
Sorted(s) == IF s = <<>> THEN <<>> ELSE Insert(Head(s), Sorted(Tail(s)))

\* A median that takes the lower of the two middle values.
MedianLow(vals) ==
    LET s == Sorted(NonMissing(vals))
        n == Len(s)
    IN  IF n = 0 THEN NaN ELSE s[(n + 1) \div 2]

\* Series.median(): NaN is skipped; the middle value, or the mean of the
\* two middle values; NaN when no value is left.
Median(vals) ==
    LET s == Sorted(NonMissing(vals))
        n == Len(s)
    IN  IF n = 0 THEN NaN
        ELSE IF n % 2 = 1 THEN s[(n + 1) \div 2]
        ELSE Div(Add(s[n \div 2], s[n \div 2 + 1]), Num(2))

HasMissing(t, c) == \E i \in 1..NRows(t) : IsNaN(t.rows[i].v[c])

\* DataFrame.dropna(): the rows without any missing value, as a new table.
DropNa(t) == Filter(t, LAMBDA r : \A c \in t.cols : ~IsNaN(r.v[c]))

\* obj[c] = obj[c].fillna(value): column c of the object r refers to is
\* replaced in place; fillna keeps the dtype.
FillNaAssign(h, r, c, value) ==
    [h EXCEPT ![r] = [SetCol(h[r], c, FillNaCol(h[r], c, value))
                         EXCEPT !.ints = h[r].ints]]

\* Lines 54-59: each column with a missing value gets its own median in
\* place of its missing entries (a column's median reads that column only,
\* so the order of the loop does not matter).
RECURSIVE ImputeColumns(_, _, _)
ImputeColumns(h, r, todo) ==
    IF todo = {} THEN h
    ELSE LET c == CHOOSE x \in todo : TRUE
         IN  ImputeColumns(FillNaAssign(h, r, c, Median(Column(h[r], c))),
                           r, todo \ {c})

ImputeMedians(h, r) ==
    ImputeColumns(h, r, {c \in h[r].cols : HasMissing(h[r], c)})

\* str(level) as pandas formats a category level in a column label: an
\* int64 level prints as an integer; a float64 level prints with its
\* fractional part ("-1.0", "0.5").  Levels here are integers or halves.
FormatLevel(v, isInt) ==
    IF isInt THEN ToString(v[1])
    ELSE IF v[2] = 1 THEN ToString(v[1]) \o ".0"
    ELSE IF v[2] = 2
         THEN (IF v[1] < 0 THEN "-" ELSE "") \o ToString(Abs(v[1]) \div 2) \o ".5"
    ELSE ToString(v[1]) \o "/" \o ToString(v[2])

Levels(t, c) == {t.rows[i].v[c] : i \in 1..NRows(t)} \ {NaN}

DummyName(prefix, v, isInt) == prefix \o "_" \o FormatLevel(v, isInt)

\* pd.get_dummies(t, columns=[c], prefix=prefix): column c is replaced by
\* one indicator column per distinct non-missing value of c.
GetDummies(t, c, prefix) ==
    LET lv     == Levels(t, c)
        isInt  == c \in t.ints
        name   == [v \in lv |-> DummyName(prefix, v, isInt)]
        added  == {name[v] : v \in lv}
        kept   == t.cols \ {c}
        level(x) == CHOOSE v \in lv : name[v] = x
    IN  [cols |-> kept \cup added,
         ints |-> (t.ints \ {c}) \cup added,
         rows |-> [i \in 1..NRows(t) |->
                    [idx |-> t.rows[i].idx,
                     v   |-> [x \in kept \cup added |->
                                IF x \in kept THEN t.rows[i].v[x]
                                ELSE IF t.rows[i].v[c] = level(x) THEN Num(1)
                                ELSE Num(0)]]]]

\* DataFrame.rename(columns={old: new}): no effect when old is no column.
Rename(t, old, new) ==
    IF old \notin t.cols THEN t
    ELSE LET cs == (t.cols \ {old}) \cup {new}
         IN  [cols |-> cs,
              ints |-> IF old \in t.ints THEN (t.ints \ {old}) \cup {new}
                       ELSE t.ints,
              rows |-> [i \in 1..NRows(t) |->
                         [idx |-> t.rows[i].idx,
                          v   |-> [x \in cs |->
                                     IF x = new THEN t.rows[i].v[old]
                                     ELSE t.rows[i].v[x]]]]]

\* Lines 61-67, on the object r refers to.
OneHotEncode(h, r) ==
    IF "imbalance_buy_sell_flag" \notin h[r].cols THEN Raised(h)
    ELSE LET d == GetDummies(h[r], "imbalance_buy_sell_flag", "imbalance_flag")
             n == Rename(d, "imbalance_flag_-1", "imbalance_flag_neg_1")
         IN  Returned([h EXCEPT !.new = n], "new")

data_preprocessing(data, remove_missing) ==
    LET h0 == Heap(data)
    IN  IF remove_missing
        THEN OneHotEncode([h0 EXCEPT !.new = DropNa(h0.arg)], "new")
        ELSE IF "far_price" \notin h0.arg.cols THEN Raised(h0)
        ELSE LET h1 == FillNaAssign(h0, "arg", "far_price", Num(0))
             IN  IF "near_price" \notin h1.arg.cols THEN Raised(h1)
                 ELSE LET h2 == FillNaAssign(h1, "arg", "near_price", Num(0))
                          h3 == ImputeMedians(h2, "arg")
                      IN  OneHotEncode(h3, "arg")

----------------------------------------------------------------------------
(* remove_extreme_values *)

RECURSIVE SumSeq(_)
SumSeq(s) == IF s = <<>> THEN Num(0) ELSE Add(Head(s), SumSeq(Tail(s)))

\* Series.mean(): NaN is skipped; NaN when no value is left.
Mean(vals) ==
    LET s == NonMissing(vals)
    IN  Div(SumSeq(s), Num(Len(s)))

\* The square of Series.std(): the sample variance (denominator count - 1)
\* of the non-missing values; NaN when fewer than two are left.
Variance(vals) ==
    LET s  == NonMissing(vals)
        m  == Mean(vals)
        sq == [i \in 1..Len(s) |-> Mul(Sub(s[i], m), Sub(s[i], m))]
    IN  Div(SumSeq(sq), Num(Len(s) - 1))

\* v >= mean - sigma*std and v <= mean + sigma*std for sigma >= 0, decided
\* on the squares so that no square root is taken: with d = v - mean,
\* d >= -sigma*std iff d >= 0 or d*d <= sigma*sigma*var.  Every comparison
\* with NaN (a missing v, an undefined mean or std) is False.
AboveLower(v, mean, var, sigma) ==
    LET d == Sub(v, mean)
    IN  /\ ~IsNaN(d) /\ ~IsNaN(var)
        /\ \/ LessEq(Num(0), d)
           \/ LessEq(Mul(d, d), Mul(Num(sigma * sigma), var))

BelowUpper(v, mean, var, sigma) ==
    LET d == Sub(v, mean)
    IN  /\ ~IsNaN(d) /\ ~IsNaN(var)
        /\ \/ LessEq(d, Num(0))
           \/ LessEq(Mul(d, d), Mul(Num(sigma * sigma), var))

\* The mask with | in place of &.
InBoundsEither(v, mean, var, sigma) ==
    AboveLower(v, mean, var, sigma) \/ BelowUpper(v, mean, var, sigma)

\* Line 107: the mask of the rows inside the bounds.
InBounds(v, mean, var, sigma) ==
    AboveLower(v, mean, var, sigma) /\ BelowUpper(v, mean, var, sigma)

\* Lines 99-107 for one column, on the table df_copy refers to.
FilterColumn(t, c, sigma) ==
    LET m   == Mean(Column(t, c))
        var == Variance(Column(t, c))
    IN  Filter(t, LAMBDA r : InBounds(r.v[c], m, var, sigma))

\* The loop with every column's mean and std taken from the table that
\* was passed in, and not from the rows left by the columns before.
RECURSIVE FilterLoopOnInput(_, _, _, _)
FilterLoopOnInput(h, r, columns, sigma) ==
    IF columns = <<>> THEN Returned(h, r)
    ELSE IF Head(columns) \notin h[r].cols THEN Raised(h)
    ELSE LET c   == Head(columns)
             m   == Mean(Column(h.arg, c))
             var == Variance(Column(h.arg, c))
         IN  FilterLoopOnInput(
                 [h EXCEPT !.new =
                     Filter(h[r], LAMBDA row : InBounds(row.v[c], m, var, sigma))],
                 "new", Tail(columns), sigma)

\* The loop of lines 98-107, df_copy being the reference r: each pass
\* binds df_copy to a new table.
RECURSIVE FilterLoop(_, _, _, _)
FilterLoop(h, r, columns, sigma) ==
    IF columns = <<>> THEN Returned(h, r)
    ELSE IF Head(columns) \notin h[r].cols THEN Raised(h)
    ELSE FilterLoop([h EXCEPT !.new = FilterColumn(h[r], Head(columns), sigma)],
                    "new", Tail(columns), sigma)

remove_extreme_values(dataframe, columns, sigma) ==
    LET c0 == DataFrameCopy(Heap(dataframe), "arg")
    IN  FilterLoop(c0.heap, c0.ref, columns, sigma)

----------------------------------------------------------------------------
(* split_data *)

\* A split whose two comparisons overlap at the threshold.
split_data_overlap(data, n) ==
    IF "date_id" \notin data.cols THEN Raised(Heap(data))
    ELSE [err  |-> FALSE,
          arg  |-> data,
          out  |-> Filter(data, LAMBDA r : LessEq(r.v["date_id"], Num(n))),
          out2 |-> Filter(data, LAMBDA r : LessEq(Num(n), r.v["date_id"]))]

split_data(data, n) ==
    IF "date_id" \notin data.cols THEN Raised(Heap(data))
    ELSE [err  |-> FALSE,
          arg  |-> data,
          out  |-> Filter(data, LAMBDA r : Less(r.v["date_id"], Num(n))),
          out2 |-> Filter(data, LAMBDA r : LessEq(Num(n), r.v["date_id"]))]

----------------------------------------------------------------------------
(* The tables a caller may hold.  Bounds of the model: *)

MaxRowsEng == 1
MaxRowsPre == 3
MaxRowsOut == 3
MaxRowsSplit == 3
MaxZeros == 18
MaxDate == 2
MaxPipeline == 1

\* The default of remove_extreme_values' sigma.
DefaultSigma == 4

\* Every row that takes, for each column c of cs, a value of dom[c].
RECURSIVE RowsOn(_, _)
RowsOn(dom, cs) ==
    IF cs = {} THEN {[x \in {} |-> NaN]}
    ELSE LET c == CHOOSE x \in cs : TRUE
         IN  {[x \in DOMAIN r \cup {c} |-> IF x = c THEN val ELSE r[x]] :
                 r \in RowsOn(dom, cs \ {c}), val \in dom[c]}

RowsOver(dom) == RowsOn(dom, DOMAIN dom)

\* A table as loaded: n rows under the index labels 0..n-1.
MkTable(cols, vs) ==
    [cols |-> cols, ints |-> {},
     rows |-> [i \in 1..Len(vs) |-> [idx |-> i - 1, v |-> vs[i]]]]

\* The tables of n rows over dom.
TablesOver(dom, n) ==
    {MkTable(DOMAIN dom, vs) : vs \in [1..n -> RowsOver(dom)]}

\* Order-book tables for feature engineering.  The four sizes are
\* volumes, 0 or more; any of them and either price may be missing.
EngDomain ==
    [bid_size       |-> {NaN, Num(0), Num(1)},
     ask_size       |-> {NaN, Num(0), Num(1)},
     imbalance_size |-> {NaN, Num(0), Num(1)},
     matched_size   |-> {Num(0), Num(1)},
     ask_price      |-> {NaN, Num(1), Num(2)},
     bid_price      |-> {NaN, Num(1)}]

\* Tables for preprocessing: the two price columns that may be undefined,
\* the categorical flag, and one ordinary column.  PreDomain varies the
\* columns that imputation fills, FlagDomain the column that is encoded.
PreDomain ==
    [far_price               |-> {NaN, Num(1)},
     near_price              |-> {NaN},
     imbalance_buy_sell_flag |-> {NaN, Num(-1)},
     bid_size                |-> {NaN, Num(0), Num(1)}]

FlagDomain ==
    [far_price               |-> {NaN, Num(1)},
     near_price              |-> {NaN},
     imbalance_buy_sell_flag |-> {NaN, Num(-1), Num(0), Num(1)},
     bid_size                |-> {Num(1)}]

\* The flag column is int64 or float64 when nothing is missing in it, and
\* float64 when something is.
FlagDtypes(t) ==
    IF HasMissing(t, "imbalance_buy_sell_flag") THEN {"float64"}
    ELSE {"int64", "float64"}

WithFlagDtype(t, dtype) ==
    IF dtype = "int64" THEN [t EXCEPT !.ints = {"imbalance_buy_sell_flag"}]
    ELSE t

\* t without column c.
DropColumn(t, c) ==
    [cols |-> t.cols \ {c},
     ints |-> t.ints \ {c},
     rows |-> [i \in 1..NRows(t) |->
                 [idx |-> t.rows[i].idx,
                  v   |-> [x \in t.cols \ {c} |-> t.rows[i].v[x]]]]]

\* The columns data_preprocessing looks up by name.
ExpectedColumns == {"far_price", "near_price", "imbalance_buy_sell_flag"}

\* Tables for the outlier filter: two columns to filter on, the other
\* order-book columns held at one value each.
OutDomain ==
    [bid_size       |-> {NaN, Num(0), Num(1)},
     ask_size       |-> {Num(0), Num(1)},
     imbalance_size |-> {Num(1)},
     matched_size   |-> {Num(1)},
     ask_price      |-> {NaN},
     bid_price      |-> {Num(1)}]

\* The synthetic column [0, 0, ..., 0, 100]: n zeros, then one 100.
Synthetic(n) ==
    MkTable({"bid_size"},
            [i \in 1..(n + 1) |->
                [c \in {"bid_size"} |-> IF i <= n THEN Num(0) ELSE Num(100)]])

ColumnLists ==
    {<<>>, <<"bid_size">>, <<"ask_size">>, <<"bid_size", "ask_size">>,
     <<"ask_size", "bid_size">>, <<"near_price">>}

Sigmas == {1, DefaultSigma}

\* Tables for the split: date_id is an int64 column (an ordinal date,
\* never missing) beside one ordinary column.
SplitDomain ==
    [date_id  |-> {Num(i) : i \in 0..MaxDate},
     bid_size |-> {NaN, Num(1)}]

Thresholds == 0..(MaxDate + 1)

----------------------------------------------------------------------------
(* The caller.  df is the table object the caller holds; a call passes df  *)
(* and leaves its result in ret.  pre is df as it was when the last call   *)
(* was made, call is that call, and src lists the functions whose results  *)
(* the caller has rebound df to (df = f(df)).                              *)

NoCall == [fn |-> "none", remove_missing |-> FALSE, columns |-> <<>>,
           sigma |-> 0, n |-> 0]

NoResult == [kind |-> "none", out |-> NoTable, out2 |-> NoTable]

Result(r, kind) ==
    [kind |-> IF r.err THEN "error" ELSE kind, out |-> r.out, out2 |-> r.out2]

Start(t) ==
    /\ df = t
    /\ src = <<>>
    /\ pre = df
    /\ ret = NoResult
    /\ call = NoCall

Invoke(r, kind, c) ==
    /\ pre' = df
    /\ df' = r.arg
    /\ ret' = Result(r, kind)
    /\ call' = c
    /\ UNCHANGED src

CallFeatureEngineering ==
    Invoke(feature_engineering(df), "table",
           [NoCall EXCEPT !.fn = "feature_engineering"])

CallDataPreprocessing ==
    \E rm \in BOOLEAN :
        Invoke(data_preprocessing(df, rm), "table",
               [NoCall EXCEPT !.fn = "data_preprocessing", !.remove_missing = rm])

CallRemoveExtremeValues ==
    \E cs \in ColumnLists, sg \in Sigmas :
        Invoke(remove_extreme_values(df, cs, sg), "table",
               [NoCall EXCEPT !.fn = "remove_extreme_values",
                              !.columns = cs, !.sigma = sg])

CallSplitData ==
    \E n \in Thresholds :
        Invoke(split_data(df, n), "pair",
               [NoCall EXCEPT !.fn = "split_data", !.n = n])

\* df = f(df): the caller goes on with the table the last call returned.
Rebind ==
    /\ ret.kind = "table"
    /\ Len(src) < MaxPipeline
    /\ df' = ret.out
    /\ pre' = ret.out
    /\ src' = Append(src, call.fn)
    /\ ret' = NoResult
    /\ call' = NoCall

LoadEng ==
    \E n \in 0..MaxRowsEng : \E t \in TablesOver(EngDomain, n) : Start(t)

LoadPre ==
    \E n \in 0..MaxRowsPre : \E t \in TablesOver(PreDomain, n) :
        \E dtype \in FlagDtypes(t) : Start(WithFlagDtype(t, dtype))

LoadFlag ==
    \E n \in 0..MaxRowsPre : \E t \in TablesOver(FlagDomain, n) :
        \E dtype \in FlagDtypes(t) : Start(WithFlagDtype(t, dtype))

\* A table that lacks one of the expected columns.
LoadPreLacking ==
    \E n \in 0..MaxRowsPre : \E t \in TablesOver(PreDomain, n) :
        \E dtype \in FlagDtypes(t), c \in ExpectedColumns :
            Start(DropColumn(WithFlagDtype(t, dtype), c))

LoadOut ==
    \E n \in 0..MaxRowsOut : \E t \in TablesOver(OutDomain, n) : Start(t)

LoadSynthetic == \E n \in 1..MaxZeros : Start(Synthetic(n))

LoadSplit ==
    \E n \in 0..MaxRowsSplit : \E t \in TablesOver(SplitDomain, n) :
        Start([t EXCEPT !.ints = {"date_id"}])

InitEng == LoadEng
NextEng == CallFeatureEngineering \/ Rebind
SpecEng == InitEng /\ [][NextEng]_vars

InitPre == LoadPre
NextPre == CallDataPreprocessing
SpecPre == InitPre /\ [][NextPre]_vars

InitFlag == LoadFlag
SpecFlag == InitFlag /\ [][NextPre]_vars

InitPreLacking == LoadPreLacking
SpecPreLacking == InitPreLacking /\ [][NextPre]_vars

InitOut == LoadOut \/ LoadSynthetic
NextOut == CallRemoveExtremeValues \/ CallFeatureEngineering
SpecOut == InitOut /\ [][NextOut]_vars

InitSplit == LoadSplit
NextSplit == CallSplitData
SpecSplit == InitSplit /\ [][NextSplit]_vars

Init == LoadEng \/ LoadPre \/ LoadFlag \/ LoadPreLacking \/ LoadOut \/ LoadSynthetic \/ LoadSplit
Next ==
    \/ CallFeatureEngineering
    \/ CallDataPreprocessing
    \/ CallRemoveExtremeValues
    \/ CallSplitData
    \/ Rebind
Spec == Init /\ [][Next]_vars

----------------------------------------------------------------------------
(* Properties.  In a state reached by a call, pre is the table that was    *)
(* passed, df the same object after the call, and ret what was returned.   *)

Derived ==
    {"liquidity_imbalance", "matched_imbalance", "price_spread", "market_urgency"}

Returned_(fn) == call.fn = fn /\ ret.kind \in {"table", "pair"}

\* C1: feature_engineering is idempotent on the derived columns: applied
\* to its own output, it returns the four derived columns with the values
\* they already had, row by row.
C1_Idempotent ==
    (Returned_("feature_engineering") /\ src = <<"feature_engineering">>) =>
        \A i \in 1..NRows(pre) : \A c \in Derived :
            FloatEq(ret.out.rows[i].v[c], pre.rows[i].v[c])

Count(S) == Cardinality(S)

AllMissing(t, c) == \A i \in 1..NRows(t) : IsNaN(t.rows[i].v[c])

\* m is the median of the non-missing values of vals, stated without
\* sorting: either m occurs in vals with fewer than half of the values on
\* each side, or exactly half lie on each side and m is the midpoint of
\* the two values nearest to it.
IsMedian(m, vals) ==
    LET I  == {i \in 1..Len(vals) : ~IsNaN(vals[i])}
        lo == Count({i \in I : Less(vals[i], m)})
        hi == Count({i \in I : Less(m, vals[i])})
    IN  /\ ~IsNaN(m)
        /\ \/ /\ \E i \in I : vals[i] = m
              /\ 2 * lo < Count(I)
              /\ 2 * hi < Count(I)
           \/ /\ 2 * lo = Count(I)
              /\ 2 * hi = Count(I)
              /\ \E i, j \in I :
                    /\ Less(vals[i], m) /\ Less(m, vals[j])
                    /\ \A k \in I : ~(Less(vals[i], vals[k]) /\ Less(vals[k], vals[j]))
                    /\ Add(vals[i], vals[j]) = Mul(Num(2), m)

PriceColumns == {"far_price", "near_price"}

ImputedCall == Returned_("data_preprocessing") /\ ~call.remove_missing

\* What imputation does to the entries of the columns that are kept:
\* a present entry is kept, a missing far_price or near_price is 0, and
\* a missing entry of another column is that column's median.
C2_Entries(allowAllMissing) ==
    /\ NRows(ret.out) = NRows(pre)
    /\ \A c \in pre.cols \ {"imbalance_buy_sell_flag"} :
          \A i \in 1..NRows(pre) :
             LET old == pre.rows[i].v[c]
                 new == ret.out.rows[i].v[c]
             IN  IF ~IsNaN(old) THEN new = old
                 ELSE IF c \in PriceColumns THEN new = Num(0)
                 ELSE \/ IsMedian(new, Column(pre, c))
                      \/ allowAllMissing /\ AllMissing(pre, c) /\ IsNaN(new)

\* C2 (as stated): after data_preprocessing(data, remove_missing=False)
\* no column of the returned table has a missing value; missing far_price
\* and near_price entries are 0 and missing entries of every other column
\* are the column's median.
C2_NoMissing ==
    ImputedCall =>
        /\ \A c \in ret.out.cols : \A i \in 1..NRows(ret.out) :
              ~IsNaN(ret.out.rows[i].v[c])
        /\ C2_Entries(FALSE)

\* C2 (amended): after data_preprocessing(data, remove_missing=False) the
\* only missing values left in the returned table are those of columns
\* whose entries were all missing in the input (such a column has no
\* median and stays all-missing); missing far_price and near_price entries
\* are 0, and missing entries of every other column that has a non-missing
\* value are the column's median over its non-missing values.
C2_Imputed ==
    ImputedCall =>
        /\ \A c \in ret.out.cols : \A i \in 1..NRows(ret.out) :
              IsNaN(ret.out.rows[i].v[c]) =>
                  c \in pre.cols \ PriceColumns /\ AllMissing(pre, c)
        /\ C2_Entries(TRUE)

\* A preprocessing call that filled a missing far_price with 0 and a
\* missing bid_size with the median 1/2 of the column.
C2_Witness ==
    /\ ImputedCall
    /\ \E i \in 1..NRows(pre) :
          /\ IsNaN(pre.rows[i].v["far_price"])
          /\ ret.out.rows[i].v["far_price"] = Num(0)
    /\ \E i \in 1..NRows(pre) :
          /\ IsNaN(pre.rows[i].v["bid_size"])
          /\ ret.out.rows[i].v["bid_size"] = <<1, 2>>

\* The label the claim gives the indicator column of value v.
ClaimedName(v, isInt) ==
    IF v = Num(-1) THEN "imbalance_flag_neg_1"
    ELSE DummyName("imbalance_flag", v, isInt)

\* C3: the indicator columns data_preprocessing generates are exactly one
\* per distinct value observed in the input's imbalance_buy_sell_flag,
\* the one of value -1 being named imbalance_flag_neg_1.
C3_Indicators ==
    Returned_("data_preprocessing") =>
        ret.out.cols \ pre.cols =
            {ClaimedName(v, "imbalance_buy_sell_flag" \in pre.ints) :
                v \in Levels(pre, "imbalance_buy_sell_flag")}

\* The ratio q claimed for the operands a and b of one row.
RatioAsClaimed(a, b, q) ==
    (~IsNaN(a) /\ ~IsNaN(b)) =>
        IF Add(a, b) # Num(0)
        THEN IsFinite(q) /\ Mul(q, Add(a, b)) = Sub(a, b)
        ELSE q = Num(0)

\* C4: for rows whose operands are present, liquidity_imbalance is
\* (bid_size - ask_size)/(bid_size + ask_size) when the sum is not 0 and
\* exactly 0 when it is; likewise matched_imbalance.
C4_Ratios ==
    Returned_("feature_engineering") =>
        \A i \in 1..NRows(pre) :
            LET x == pre.rows[i].v
                y == ret.out.rows[i].v
            IN  /\ RatioAsClaimed(x["bid_size"], x["ask_size"],
                                  y["liquidity_imbalance"])
                /\ RatioAsClaimed(x["imbalance_size"], x["matched_size"],
                                  y["matched_imbalance"])

\* feature_engineering has returned 0 for the ratio of a row whose two
\* operands are present and sum to 0, beside a row-wise ratio that is not 0.
C4_Witness ==
    /\ Returned_("feature_engineering")
    /\ \E i \in 1..NRows(pre) :
          /\ pre.rows[i].v["bid_size"] = Num(0)
          /\ pre.rows[i].v["ask_size"] = Num(0)
          /\ ret.out.rows[i].v["liquidity_imbalance"] = Num(0)
          /\ pre.rows[i].v["imbalance_size"] = Num(0)
          /\ pre.rows[i].v["matched_size"] = Num(1)
          /\ ret.out.rows[i].v["matched_imbalance"] = Num(-1)

\* C5: in every returned row, market_urgency equals price_spread times
\* liquidity_imbalance of that row.
C5_Urgency ==
    Returned_("feature_engineering") =>
        \A i \in 1..NRows(ret.out) :
            LET y == ret.out.rows[i].v
            IN  FloatEq(y["market_urgency"],
                        Mul(y["price_spread"], y["liquidity_imbalance"]))

RowIn(t, r) == \E j \in 1..NRows(t) : t.rows[j] = r

\* The rows of t are in the order of their index labels (the order of the
\* table they were taken from), none twice.
InOrder(t) == \A j \in 1..(NRows(t) - 1) : t.rows[j].idx < t.rows[j + 1].idx

\* part holds exactly the rows of pre that satisfy P, in their order.
HoldsExactly(part, P(_)) ==
    /\ \A i \in 1..NRows(pre) : RowIn(part, pre.rows[i]) <=> P(pre.rows[i])
    /\ \A j \in 1..NRows(part) : RowIn(pre, part.rows[j])
    /\ InOrder(part)

C6_Parts ==
    /\ HoldsExactly(ret.out, LAMBDA r : Less(r.v["date_id"], Num(call.n)))
    /\ HoldsExactly(ret.out2, LAMBDA r : LessEq(Num(call.n), r.v["date_id"]))

\* C6: split_data returns train = the rows with date_id < n
\* and test = the rows with date_id >= n, each in the original order, and
\* every row of data is in exactly one of the two.
C6_Partition ==
    Returned_("split_data") =>
        /\ C6_Parts
        /\ \A i \in 1..NRows(pre) :
              RowIn(ret.out, pre.rows[i]) # RowIn(ret.out2, pre.rows[i])
        /\ NRows(ret.out) + NRows(ret.out2) = NRows(pre)

\* A split with rows on both sides, one of them at the threshold, taken
\* from a table whose dates are not in order.
C6_Witness ==
    /\ Returned_("split_data")
    /\ NRows(ret.out) > 0
    /\ NRows(ret.out2) > 0
    /\ \E i \in 1..NRows(pre) : pre.rows[i].v["date_id"] = Num(call.n)
    /\ \E i \in 1..(NRows(pre) - 1) :
          Less(pre.rows[i + 1].v["date_id"], pre.rows[i].v["date_id"])

\* t is the synthetic column: zeros, then one 100.
IsSynthetic(t) ==
    /\ t.cols = {"bid_size"}
    /\ NRows(t) >= 2
    /\ \A i \in 1..NRows(t) :
          t.rows[i].v["bid_size"] = IF i < NRows(t) THEN Num(0) ELSE Num(100)

SyntheticCall ==
    /\ Returned_("remove_extreme_values")
    /\ call.columns = <<"bid_size">>
    /\ call.sigma = DefaultSigma
    /\ IsSynthetic(pre)

ZeroRows(t) == [t EXCEPT !.rows = SubSeq(t.rows, 1, NRows(t) - 1)]

\* C7 (as stated): with sigma = 4, the filter applied to n >= 1 zeros and
\* one 100 returns the n zero rows and not the row of 100.
C7_OutlierRemoved == SyntheticCall => ret.out = ZeroRows(pre)

\* C7 (amended): with sigma = 4, the filter applied to n >= 1 zeros and
\* one 100 keeps every zero row, and removes the row of 100 exactly when
\* n*n > 16*(n + 1), that is for n >= 17; for n <= 16 it returns all rows.
C7_OutlierRemovedWhenMany ==
    SyntheticCall =>
        LET n == NRows(pre) - 1
        IN  ret.out = IF n * n > call.sigma * call.sigma * (n + 1)
                      THEN ZeroRows(pre) ELSE pre

\* The filter has removed the 100 from under 17 zeros.
C7_Witness ==
    /\ SyntheticCall
    /\ NRows(pre) = 18
    /\ ret.out = ZeroRows(pre)

\* feature_engineering has returned a row in which the final fillna put 0
\* for a price_spread and a market_urgency that were NaN, beside a
\* liquidity_imbalance that is not 0.
C5_Witness ==
    /\ Returned_("feature_engineering")
    /\ \E i \in 1..NRows(pre) :
          /\ IsNaN(pre.rows[i].v["ask_price"])
          /\ ret.out.rows[i].v["liquidity_imbalance"] \notin {Num(0), NaN}
          /\ ret.out.rows[i].v["price_spread"] = Num(0)
          /\ ret.out.rows[i].v["market_urgency"] = Num(0)

\* C8: data_preprocessing leaves the table object it was passed as it
\* was.
C8_InputUntouched == call.fn = "data_preprocessing" => df = pre

\* C9: feature_engineering and remove_extreme_values leave the table
\* object they were passed as it was, whether they return or raise.
C9_InputsUntouched ==
    call.fn \in {"feature_engineering", "remove_extreme_values"} => df = pre

\* feature_engineering has returned a table in which it replaced a
\* missing value of the input, and the input still has it.
C9_Witness ==
    /\ Returned_("feature_engineering")
    /\ \E i \in 1..NRows(pre) :
          /\ IsNaN(pre.rows[i].v["bid_size"])
          /\ ret.out.rows[i].v["bid_size"] = Num(0)
          /\ IsNaN(df.rows[i].v["bid_size"])

\* C10: a call of data_preprocessing that fails on a missing column has
\* no effect on the table object it was passed.
C10_AllOrNothing ==
    (call.fn = "data_preprocessing" /\ ret.kind = "error") => df = pre

----------------------------------------------------------------------------
(* Sequential filtering *)

\* The values of column c that are present in t, in row order.
PresentValues(t, c) ==
    LET vals == [i \in 1..NRows(t) |-> t.rows[i].v[c]]
    IN  SelectSeq(vals, LAMBDA v : ~IsNaN(v))

\* v lies within sigma sample standard deviations of the mean of m values
\* with sum S and sum of squares Q, said without a division or a square
\* root: mean = S/m and std*std = (m*Q - S*S)/(m*(m - 1)), so
\* |v - mean| <= sigma*std iff
\* (m*v - S)^2 * (m - 1) <= sigma^2 * m * (m*Q - S*S).  The std is
\* undefined for m < 2, and a missing v lies in no interval.
WithinSigma(v, m, S, Q, sigma) ==
    LET e == Sub(Mul(Num(m), v), S)
    IN  /\ ~IsNaN(v)
        /\ m >= 2
        /\ LessEq(Mul(Mul(e, e), Num(m - 1)),
                  Mul(Num(sigma * sigma * m), Sub(Mul(Num(m), Q), Mul(S, S))))

\* The rows of t that survive the step for column c.
SurvivorsOfStep(t, c, sigma) ==
    LET xs == PresentValues(t, c)
        m  == Len(xs)
        S  == SumSeq(xs)
        Q  == SumSeq([i \in 1..m |-> Mul(xs[i], xs[i])])
    IN  [t EXCEPT !.rows =
            SelectSeq(t.rows, LAMBDA row : WithinSigma(row.v[c], m, S, Q, sigma))]

\* The rows that survive the steps for columns, taken in order, each step
\* on the survivors of the steps before it.
RECURSIVE Survivors(_, _, _)
Survivors(t, columns, sigma) ==
    IF columns = <<>> THEN t
    ELSE Survivors(SurvivorsOfStep(t, Head(columns), sigma), Tail(columns), sigma)

Reversed(s) == [i \in 1..Len(s) |-> s[Len(s) + 1 - i]]

\* C11: remove_extreme_values filters column by column in the given
\* order: the mean and the sample standard deviation of a column are taken
\* over the rows that survived the columns before it, and a row survives
\* the step iff its value lies in [mean - sigma*std, mean + sigma*std] (a
\* missing value never does, and no row does when the std is undefined);
\* the returned rows are rows of the input, in the input's order.
C11_Sequential ==
    Returned_("remove_extreme_values") =>
        /\ ret.out = Survivors(pre, call.columns, call.sigma)
        /\ \A j \in 1..NRows(ret.out) : RowIn(pre, ret.out.rows[j])
        /\ InOrder(ret.out)

\* C11, the dependence on the order: two columns were filtered, the second
\* on the survivors of the first, and the same columns in the other order
\* give another table.
C11_Witness ==
    /\ Returned_("remove_extreme_values")
    /\ Len(call.columns) = 2
    /\ NRows(ret.out) < NRows(SurvivorsOfStep(pre, call.columns[1], call.sigma))
    /\ NRows(SurvivorsOfStep(pre, call.columns[1], call.sigma)) < NRows(pre)
    /\ ret.out # remove_extreme_values(pre, Reversed(call.columns), call.sigma).out

----------------------------------------------------------------------------
(* Columns of the input in the output of feature_engineering *)

\* C12: feature_engineering only adds the four derived columns: every
\* column of the input other than those four has, in the returned table,
\* the value it had in the input in every row, a missing entry still
\* missing.
C12_OnlyAdds ==
    Returned_("feature_engineering") =>
        /\ ret.out.cols = pre.cols \cup Derived
        /\ NRows(ret.out) = NRows(pre)
        /\ \A i \in 1..NRows(pre) : \A c \in pre.cols \ Derived :
              ret.out.rows[i].v[c] = pre.rows[i].v[c]

====
